---- MODULE Spec2Model ----
(***************************************************************************)
(* A model of dolfyn's Nortek Signature indexer (dolfyn/io/nortek2lib.py)  *)
(* and of the ADV rotation / motion-correction routines                    *)
(* (dolfyn/adv/rotate.py).                                                 *)
(*                                                                         *)
(* The indexer is modelled at the byte level: the input file is a sequence *)
(* of bytes laid out from record templates, and create_index_slow decodes  *)
(* headers and sub-headers from whatever bytes lie at the file position.   *)
(***************************************************************************)
EXTENDS Integers, Sequences, FiniteSets, TLC

VARIABLES
    \* ---- create_index_slow / get_index / index2ens_pos / calc_config ----
    recs,       \* the record templates the input file was laid out from
    cut,        \* the number of bytes missing from the end of the file
    N_ens,      \* create_index_slow's third argument
    pos,        \* fin.tell() at the top of the loop
    N,          \* running ensemble index
    ens,        \* ensemble counter of the record read last
    last_ens,   \* ensemble counter of the previous recognized record
    config,     \* config bit-mask read last
    fout,       \* the index entries written so far
    pc,         \* "scan" | "done" | "error" | "condensed" | "configured" | "cfgerror"
    err,        \* the exception that ended the call ("" when none)
    ens_pos,    \* result of index2ens_pos
    cfgout,     \* result of calc_config: the exception raised or the dict
    \* ---- inst2earth / earth2principal / principal2earth ----
    advo,       \* the ADV data object: its attributes, props and config
    warned,     \* the warnings the last call emitted
    raised,     \* the exception the last call raised ("" when none)
    calls,      \* the last two calls, each with the tag and (u, v) it found
    \* ---- correct_motion ----
    mc,         \* the correct_motion object: its filter settings
    madv,       \* the ADV data object correct_motion is called on
    u_head,     \* the velocity the call found in madv (kept for the properties)
    mc_pc       \* "ready" | "corrected"

idxvars == <<recs, cut, N_ens, pos, N, ens, last_ens, config, fout, pc, err,
             ens_pos, cfgout>>

rotvars == <<advo, warned, raised, calls>>

mcvars == <<mc, madv, u_head, mc_pc>>

vars == <<idxvars, rotvars, mcvars>>

----------------------------------------------------------------------------
(* Bounds of the model.                                                    *)

\* The longest input stream, in records.
MaxRecs == 3
\* The longest index the scan may write (a record with a negative size is
\* re-read forever).
MaxIdx == 4

----------------------------------------------------------------------------
(* Integer helpers.                                                        *)

Abs(x) == IF x < 0 THEN -x ELSE x

RECURSIVE Pow2(_)
Pow2(n) == IF n = 0 THEN 1 ELSE 2 * Pow2(n - 1)

----------------------------------------------------------------------------
(* The binary layout.                                                      *)

\* hdr = struct.Struct('<BBBBhhh'): hdr.size
HdrSize == 10
\* bytes of the sub-header consumed by the reads and seeks of lines 81-88
SubHdrSize == 76

\* offsets, from the end of the header, of the fields lines 81-88 read:
\* seek(2) read(2) seek(4) read(8) seek(14) read(2) seek(40) read(4)
OffConfig == 2
OffTime == 8
OffBeamsCy == 30
OffEns == 72

\* the id list of line 78 without 26
Recognized_no26 == {21, 24}

\* the record ids create_index_slow indexes
Recognized == {21, 24, 26}

----------------------------------------------------------------------------
(* The input file.  A template describes one record as it was laid out in  *)
(* the file: its id, the size its header declares (sz), the number of      *)
(* payload bytes that physically follow the header (plen), and the fields  *)
(* of its sub-header.                                                      *)

T(id, sz, plen, cfg, bcy, cnt) ==
    [id |-> id, sz |-> sz, plen |-> plen, cfg |-> cfg, bcy |-> bcy, cnt |-> cnt]

\* 0x20E0 = vel|amp|corr|p_gd, 0x00E1 = press|vel|amp|corr
\* 0x4014 = 4 beams, ENU, 20 cells;  0x4414 = 4 beams, XYZ, 20 cells
Templates ==
    { T(21, 76, 76, 8416, 16404, 5),     \* velocity, ensemble counter 5
      T(26, 80, 80, 8416, 16404, 6),     \* altimeter, longer payload
      T(24, 76, 76, 225, 17428, 0),      \* bottom track, ensemble counter 0
      T(21, 76, 76, 225, 16404, 6),      \* velocity with another config
      T(28, 4, 4, 0, 0, 0),              \* echosounder: not indexed
      T(21, -10, 76, 8416, 16404, 6),    \* declared size 0xFFF6
      T(21, -96, 76, 8416, 16404, 7),    \* declared size 0xFFA0
      T(28, -10, 0, 0, 0, 0) }           \* declared size 0xFFF6, not indexed

\* bytes cut off the end of the file
Cuts == {0, 3, 12, 83}

\* get_index passes 2 ** 32 for N_ens, more than TLC's integers hold: the
\* largest of them stands for it (N counts records and never gets near either)
Unlimited == 2147483647
\* values of N_ens
MaxEnsChoices == {1, 2, Unlimited}

\* the payload byte at offset k (0-based, after the header) of a record
PayloadByte(t, k) ==
    CASE k = 2 -> t.cfg % 256
      [] k = 3 -> t.cfg \div 256
      [] k = 8 -> 12
      [] k = 9 -> 5
      [] k = 10 -> 12
      [] k = 30 -> t.bcy % 256
      [] k = 31 -> t.bcy \div 256
      [] k = 72 -> t.cnt % 256
      [] k = 73 -> (t.cnt \div 256) % 256
      [] k = 74 -> (t.cnt \div 65536) % 256
      [] k = 75 -> (t.cnt \div 16777216) % 256
      [] OTHER -> 0

\* the header byte at offset k (0-based) of a record
HeaderByte(t, k) ==
    CASE k = 0 -> 165
      [] k = 1 -> HdrSize
      [] k = 2 -> t.id
      [] k = 3 -> 16
      [] k = 4 -> (t.sz % 65536) % 256
      [] k = 5 -> (t.sz % 65536) \div 256
      [] OTHER -> 0

\* the byte at offset k (0-based) of a record as laid out
RecByte(t, k) == IF k < HdrSize THEN HeaderByte(t, k) ELSE PayloadByte(t, k - HdrSize)

RecLen(t) == HdrSize + t.plen

RECURSIVE TotalLen(_)
TotalLen(rs) == IF rs = <<>> THEN 0 ELSE RecLen(Head(rs)) + TotalLen(Tail(rs))

\* the length of the input file
FileLen == IF cut >= TotalLen(recs) THEN 0 ELSE TotalLen(recs) - cut

\* the byte at file offset p (0-based), p < FileLen
RECURSIVE ByteFrom(_, _)
ByteFrom(i, p) ==
    IF p < RecLen(recs[i]) THEN RecByte(recs[i], p)
                           ELSE ByteFrom(i + 1, p - RecLen(recs[i]))
ByteAt(p) == ByteFrom(1, p)

\* whether fin.read(n) at file position p returns all n bytes
ReadsAll(p, n) == p + n <= FileLen

\* struct.unpack of '<H', '<h', '<I' and 'B' on the bytes at file offset p
U16(p) == ByteAt(p) + 256 * ByteAt(p + 1)
S16(p) == IF U16(p) >= 32768 THEN U16(p) - 65536 ELSE U16(p)
U32(p) == ByteAt(p) + 256 * ByteAt(p + 1) + 65536 * ByteAt(p + 2)
            + 16777216 * ByteAt(p + 3)

\* hdr.unpack(fin.read(hdr.size)) at file offset p:
\* (sync, hdrsize, ID, family, datasize, datachk, hdrchk)
hdr_unpack(p) ==
    <<ByteAt(p), ByteAt(p + 1), ByteAt(p + 2), ByteAt(p + 3),
      S16(p + 4), S16(p + 6), S16(p + 8)>>

\* the offset at which record i of the stream was laid out
RECURSIVE Offset(_, _)
Offset(rs, i) == IF i = 1 THEN 0 ELSE Offset(rs, i - 1) + HdrSize + rs[i - 1].plen

Streams == UNION {[1..n -> Templates] : n \in 0..MaxRecs}

----------------------------------------------------------------------------
(* create_index_slow                                                       *)

\* line 89-90: the running ensemble index after a record with counter e
NextN(n, last, e) == IF last > 0 /\ last # e THEN n + 1 ELSE n

\* the header at the cursor
HeaderComplete == ReadsAll(pos, HdrSize)
dat == hdr_unpack(pos)
\* the four struct.unpack calls of lines 82-88 all get the bytes they ask for
SubHdrComplete == ReadsAll(pos + HdrSize, SubHdrSize)
\* line 94 / 97: where the relative seek lands
SeekTarget == pos + HdrSize + dat[5]

\* lines 82-93: struct.pack('<QQ4H6BH', N, pos, dat[2], config, beams_cy, 0,
\* yr, mo, dy, h, m, s, u) with the fields read at payload offset q
Entry(n, p, id, q) ==
    [ens |-> n, pos |-> p, ID |-> id,
     config |-> U16(q + OffConfig),
     beams_cy |-> U16(q + OffBeamsCy),
     time |-> <<ByteAt(q + OffTime), ByteAt(q + OffTime + 1), ByteAt(q + OffTime + 2),
                ByteAt(q + OffTime + 3), ByteAt(q + OffTime + 4),
                ByteAt(q + OffTime + 5), U16(q + OffTime + 6)>>]

InitScan ==
    /\ pos = 0
    /\ N = 0
    /\ ens = 0
    /\ last_ens = -1
    /\ config = 0
    /\ fout = <<>>
    /\ pc = "scan"
    /\ err = ""
    /\ ens_pos = <<>>
    /\ cfgout = <<>>

\* line 74: the while condition fails
LoopExit ==
    /\ pc = "scan"
    /\ ~(N < N_ens)
    /\ pc' = "done"
    /\ UNCHANGED <<recs, cut, N_ens, pos, N, ens, last_ens, config, fout, err,
                   ens_pos, cfgout>>
    /\ UNCHANGED <<rotvars, mcvars>>

\* lines 76-79: fewer than hdr.size bytes are left: hdr.unpack raises, break
HeaderEOF ==
    /\ pc = "scan"
    /\ N < N_ens
    /\ ~HeaderComplete
    /\ pc' = "done"
    /\ UNCHANGED <<recs, cut, N_ens, pos, N, ens, last_ens, config, fout, err,
                   ens_pos, cfgout>>
    /\ UNCHANGED <<rotvars, mcvars>>

\* lines 80-95: a recognized record is indexed
IndexRecord ==
    /\ pc = "scan"
    /\ N < N_ens
    /\ HeaderComplete
    /\ dat[3] \in Recognized
    /\ SubHdrComplete
    /\ Len(fout) < MaxIdx
    /\ LET e == U32(pos + HdrSize + OffEns)
           n == NextN(N, last_ens, e)
       IN /\ config' = U16(pos + HdrSize + OffConfig)
          /\ ens' = e
          /\ N' = n
          /\ fout' = Append(fout, Entry(n, pos, dat[3], pos + HdrSize))
          /\ IF SeekTarget >= 0
                THEN /\ pos' = SeekTarget
                     /\ last_ens' = e
                     /\ UNCHANGED <<pc, err>>
                ELSE \* fin.seek to a negative offset raises OSError
                     /\ pc' = "error"
                     /\ err' = "OSError"
                     /\ UNCHANGED <<pos, last_ens>>
    /\ UNCHANGED <<recs, cut, N_ens, ens_pos, cfgout>>
    /\ UNCHANGED <<rotvars, mcvars>>

\* lines 80-88: the file ends inside the sub-header of a recognized record:
\* struct.unpack gets too few bytes and raises struct.error, which nothing
\* catches
IndexRecordShort ==
    /\ pc = "scan"
    /\ N < N_ens
    /\ HeaderComplete
    /\ dat[3] \in Recognized
    /\ ~SubHdrComplete
    /\ config' = IF ReadsAll(pos + HdrSize + OffConfig, 2)
                     THEN U16(pos + HdrSize + OffConfig) ELSE config
    /\ pc' = "error"
    /\ err' = "struct.error"
    /\ UNCHANGED <<recs, cut, N_ens, pos, N, ens, last_ens, fout, ens_pos, cfgout>>
    /\ UNCHANGED <<rotvars, mcvars>>

\* line 97: any other record is skipped by its declared size
SkipRecord ==
    /\ pc = "scan"
    /\ N < N_ens
    /\ HeaderComplete
    /\ dat[3] \notin Recognized
    /\ IF SeekTarget >= 0
          THEN /\ pos' = SeekTarget
               /\ UNCHANGED <<pc, err>>
          ELSE /\ pc' = "error"
               /\ err' = "OSError"
               /\ UNCHANGED pos
    /\ UNCHANGED <<recs, cut, N_ens, N, ens, last_ens, config, fout, ens_pos, cfgout>>
    /\ UNCHANGED <<rotvars, mcvars>>

create_index_slow ==
    \/ LoopExit
    \/ HeaderEOF
    \/ IndexRecord
    \/ IndexRecordShort
    \/ SkipRecord

----------------------------------------------------------------------------
(* index2ens_pos                                                           *)

\* lines 124-125: dens = ones; dens[1:] = np.diff(index['ens']) != 0
dens(index) ==
    [i \in 1..Len(index) |-> IF i = 1 THEN TRUE ELSE index[i].ens # index[i - 1].ens]

\* index['pos'][d]: the positions of the entries the mask selects, from entry i on
RECURSIVE MaskPos(_, _, _)
MaskPos(index, d, i) ==
    IF i > Len(index) THEN <<>>
    ELSE IF d[i] THEN <<index[i].pos>> \o MaskPos(index, d, i + 1)
                 ELSE MaskPos(index, d, i + 1)

\* the mask with its first element cleared (dens = zeros instead of ones)
index2ens_pos_zeros(index) ==
    MaskPos(index, [i \in 1..Len(index) |-> i # 1 /\ dens(index)[i]], 1)

index2ens_pos(index) == MaskPos(index, dens(index), 1)

\* get_index returns the entries of the index file; the caller condenses them
Index2EnsPos ==
    /\ pc = "done"
    /\ ens_pos' = index2ens_pos(fout)
    /\ pc' = "condensed"
    /\ UNCHANGED <<recs, cut, N_ens, pos, N, ens, last_ens, config, fout, err, cfgout>>
    /\ UNCHANGED <<rotvars, mcvars>>

----------------------------------------------------------------------------
(* calc_config                                                             *)

getbit(val, n) == ((val \div Pow2(n)) % 2) = 1

headconfig_int2dict(val) ==
    [press_valid |-> getbit(val, 0), temp_valid |-> getbit(val, 1),
     compass_valid |-> getbit(val, 2), tilt_valid |-> getbit(val, 3),
     vel |-> getbit(val, 5), amp |-> getbit(val, 6), corr |-> getbit(val, 7),
     alt |-> getbit(val, 8), alt_raw |-> getbit(val, 9), ast |-> getbit(val, 10),
     echo |-> getbit(val, 11), ahrs |-> getbit(val, 12), p_gd |-> getbit(val, 13),
     std |-> getbit(val, 14)]

beams_cy_int2dict(val, id) ==
    IF id = 28 THEN [ncells |-> val]
    ELSE [ncells |-> val % Pow2(10),
          cy |-> <<"ENU", "XYZ", "BEAM", "None">>[((val \div Pow2(10)) % 4) + 1],
          nbeams |-> val \div Pow2(12)]

\* np.any instead of np.all
isuniform_any(vec) == \E i \in 1..Len(vec) : vec[i] = vec[1]

isuniform(vec) == \A i \in 1..Len(vec) : vec[i] = vec[1]

\* line 194: np.unique(index['ID'])
ids(index) == {index[i].ID : i \in 1..Len(index)}

\* line 197: the ids calc_config looks at
ConfigIds == {21, 24, 26}

\* lines 199-201: index['config'][inds], index['beams_cy'][inds]
OfId(index, id) == SelectSeq(index, LAMBDA e : e.ID = id)
ConfigOf(index, id) == [i \in 1..Len(OfId(index, id)) |-> OfId(index, id)[i].config]
BeamsCyOf(index, id) == [i \in 1..Len(OfId(index, id)) |-> OfId(index, id)[i].beams_cy]

\* lines 210-214: the dict of one id
ConfigDict(c, b, id) ==
    LET d == ("_config" :> c) @@ ("_beams_cy" :> b)
             @@ beams_cy_int2dict(b, id) @@ headconfig_int2dict(c)
    IN [k \in DOMAIN d \ {"cy"} |-> d[k]]

\* the ids, in the ascending order of the loop, at which a check fails
Offending(index) ==
    {id \in ids(index) \cap ConfigIds :
        ~isuniform(ConfigOf(index, id)) \/ ~isuniform(BeamsCyOf(index, id))}

SetMin(S) == CHOOSE x \in S : \A y \in S : x <= y

\* lines 196-215: the exception raised at the first failing id, or the dict
calc_config(index) ==
    IF Offending(index) # {}
    THEN LET id == SetMin(Offending(index))
         IN [raised |-> TRUE,
             what |-> IF ~isuniform(ConfigOf(index, id)) THEN "config" ELSE "beams_cy",
             id |-> id,
             config |-> <<>>]
    ELSE [raised |-> FALSE, what |-> "", id |-> 0,
          config |-> [id \in ids(index) \cap ConfigIds |->
                        ConfigDict(ConfigOf(index, id)[1], BeamsCyOf(index, id)[1], id)]]

CalcConfigReturn ==
    /\ pc = "condensed"
    /\ ~calc_config(fout).raised
    /\ cfgout' = calc_config(fout)
    /\ pc' = "configured"
    /\ UNCHANGED <<recs, cut, N_ens, pos, N, ens, last_ens, config, fout, err, ens_pos>>
    /\ UNCHANGED <<rotvars, mcvars>>

CalcConfigRaise ==
    /\ pc = "condensed"
    /\ calc_config(fout).raised
    /\ cfgout' = calc_config(fout)
    /\ pc' = "cfgerror"
    /\ err' = "Exception"
    /\ UNCHANGED <<recs, cut, N_ens, pos, N, ens, last_ens, config, fout, ens_pos>>
    /\ UNCHANGED <<rotvars, mcvars>>

Analyse == Index2EnsPos \/ CalcConfigReturn \/ CalcConfigRaise

----------------------------------------------------------------------------
(* Rotations of an ADV data object (dolfyn/adv/rotate.py).                 *)
(*                                                                         *)
(* Angles are whole degrees and every angle of the model is a multiple of  *)
(* 90, where sine and cosine are exact; velocities are integers.  The data *)
(* object holds one sample.                                                *)

CosD(a) == CASE a % 360 = 0 -> 1
             [] a % 360 = 90 -> 0
             [] a % 360 = 180 -> -1
             [] a % 360 = 270 -> 0

SinD(a) == CASE a % 360 = 0 -> 0
             [] a % 360 = 90 -> 1
             [] a % 360 = 180 -> 0
             [] a % 360 = 270 -> -1

\* np.angle(np.exp(1j * a).mean()) of one sample: a, in (-180, 180]
MeanAngle(a) == IF a % 360 > 180 THEN (a % 360) - 360 ELSE a % 360

\* the spacing of single-precision numbers around a >= 0
RECURSIVE UlpFrom(_, _)
UlpFrom(a, p) == IF a \div p < 16777216 THEN p ELSE UlpFrom(a, 2 * p)

\* .astype('single') of an integer: exact up to 2^24, then rounded to the
\* nearest representable number, ties to even
Single(x) ==
    LET a == Abs(x)
        p == UlpFrom(a, 1)
        q == a \div p
        r == a % p
        m == (IF 2 * r > p \/ (2 * r = p /\ q % 2 = 1) THEN q + 1 ELSE q) * p
    IN IF x < 0 THEN -m ELSE m

\* advo.U_rot(angle): (u + 1j * v) * exp(1j * angle)
U_rot(o, angle) ==
    [real |-> o.u * CosD(angle) - o.v * SinD(angle),
     imag |-> o.u * SinD(angle) + o.v * CosD(angle)]

has_key(d, k) == k \in DOMAIN d
hasattr(o, k) == k \in DOMAIN o

\* the record of a call, kept for the properties: the last two only
Called(op, o) ==
    LET c == [op |-> op, coord_sys |-> o.props.coord_sys, u |-> o.u, v |-> o.v]
    IN IF Len(calls) < 2 THEN Append(calls, c) ELSE <<calls[2], c>>

\* lines 163-175: the heading, pitch and roll the rotation uses, in degrees
RollOf(o, use_mean) ==
    (IF use_mean THEN MeanAngle(o.roll) ELSE o.roll)
      + (IF o.config.orientation = "down" THEN 180 ELSE 0)
PitchOf(o, use_mean) == IF use_mean THEN MeanAngle(o.pitch) ELSE o.pitch
HeadingOf(o, use_mean) ==
    (IF use_mean THEN MeanAngle(o.heading - 90) ELSE o.heading - 90)
      + (IF has_key(o.props, "declination") THEN o.props.declination ELSE 0)
      + (IF has_key(o.props, "heading_offset") THEN o.props.heading_offset ELSE 0)

\* lines 170-175: the warnings of one call
Inst2EarthWarnings(o) ==
    IF has_key(o.props, "declination") THEN {}
    ELSE {"No declination in adv object.  Assuming a declination of 0."}

\* lines 190-193: u_inst, v_inst, w_inst are saved once, from XYZ data
SaveInst(o) ==
    IF o.config.coordinate_system = "XYZ" /\ ~hasattr(o, "u_inst")
    THEN ("u_inst" :> o.u) @@ ("v_inst" :> o.v) @@ ("w_inst" :> o.w) @@ o
    ELSE o

\* lines 205-222: the rotated velocity and the tag
Rotated(o, rr, pp, hh) ==
    LET ch == CosD(hh)  sh == SinD(hh)
        cp == CosD(pp)  sp == SinD(pp)
        cr == CosD(rr)  sr == SinD(rr)
    IN [o EXCEPT
          !.u = Single((ch * cp) * o.u_inst + (-ch * sp * sr + sh * cr) * o.v_inst
                         + (-ch * cr * sp - sh * sr) * o.w_inst),
          !.v = Single((-sh * cp) * o.u_inst + (sh * sp * sr + ch * cr) * o.v_inst
                         + (sh * cr * sp - ch * sr) * o.w_inst),
          !.w = Single(sp * o.u_inst + (sr * cp) * o.v_inst + cp * cr * o.w_inst),
          !.props.coord_sys = "earth"]

inst2earth ==
    /\ raised = ""
    /\ \E use_mean_rotation \in BOOLEAN :
          LET o == SaveInst(advo)
          IN IF hasattr(o, "u_inst")
             THEN /\ advo' = Rotated(o, RollOf(advo, use_mean_rotation),
                                     PitchOf(advo, use_mean_rotation),
                                     HeadingOf(advo, use_mean_rotation))
                  /\ raised' = ""
             ELSE \* line 216: advo.u_inst does not exist
                  /\ advo' = advo
                  /\ raised' = "AttributeError"
    /\ warned' = Inst2EarthWarnings(advo)
    /\ calls' = Called("inst2earth", advo)
    /\ UNCHANGED <<idxvars, mcvars>>

\* lines 234-237, with the angle negated as line 243 has it
Earth2PrincipalSameSign(o) ==
    IF o.props.coord_sys = "principal" THEN o
    ELSE [o EXCEPT !.u = Single(U_rot(o, o.principal_angle).real),
                   !.v = Single(U_rot(o, o.principal_angle).imag),
                   !.props.coord_sys = "principal"]

\* lines 232-237
Earth2Principal(o) ==
    IF o.props.coord_sys = "principal" THEN o
    ELSE [o EXCEPT !.u = Single(U_rot(o, -o.principal_angle).real),
                   !.v = Single(U_rot(o, -o.principal_angle).imag),
                   !.props.coord_sys = "principal"]

\* lines 243-246
Principal2Earth(o) ==
    [o EXCEPT !.u = Single(U_rot(o, o.principal_angle).real),
              !.v = Single(U_rot(o, o.principal_angle).imag),
              !.props.coord_sys = "earth"]

earth2principal ==
    /\ raised = ""
    /\ advo' = Earth2Principal(advo)
    /\ warned' = {}
    /\ calls' = Called("earth2principal", advo)
    /\ UNCHANGED <<raised, idxvars, mcvars>>

principal2earth ==
    /\ raised = ""
    /\ advo' = Principal2Earth(advo)
    /\ warned' = {}
    /\ calls' = Called("principal2earth", advo)
    /\ UNCHANGED <<raised, idxvars, mcvars>>

\* the velocities, attitudes and settings of the data objects of the model
Velocities == {<<1, 2, 3>>, <<-2, 0, 1>>}
Angles == {0, 90, 180, -90}
\* (roll, pitch, heading)
Attitudes == {<<0, 0, 0>>, <<90, 0, 90>>, <<0, 90, 180>>}

\* props with the keys that are present: decl and off are <<>> or <<degrees>>
PropsOf(cs, decl, off) ==
    LET a == [coord_sys |-> cs]
        b == IF decl = <<>> THEN a ELSE ("declination" :> decl[1]) @@ a
    IN IF off = <<>> THEN b ELSE ("heading_offset" :> off[1]) @@ b

\* a data object as read from a file: in instrument coordinates when the
\* instrument recorded XYZ, in earth coordinates when it recorded ENU
InitRot ==
    /\ \E vel \in Velocities, cs \in {"XYZ", "ENU"}, orient \in {"up", "down"},
          att \in Attitudes, decl \in {<<>>, <<90>>}, off \in {<<>>, <<90>>},
          pa \in Angles :
          advo = [u |-> vel[1], v |-> vel[2], w |-> vel[3],
                  roll |-> att[1], pitch |-> att[2], heading |-> att[3],
                  principal_angle |-> pa,
                  config |-> [orientation |-> orient, coordinate_system |-> cs],
                  props |-> PropsOf(IF cs = "XYZ" THEN "inst" ELSE "earth", decl, off)]
    /\ warned = {}
    /\ raised = ""
    /\ calls = <<>>

\* no data object
IdleRot ==
    /\ advo = <<>>
    /\ warned = {}
    /\ raised = ""
    /\ calls = <<>>

----------------------------------------------------------------------------
(* correct_motion (dolfyn/adv/rotate.py).                                  *)
(*                                                                         *)
(* Arrays are tuples: a (3, n) array is a[i][k], a (3, 3, n) array is       *)
(* a[i][j][k].  Numbers are integers.  The sampling frequency is a         *)
(* fraction num/den of a hertz, so that the time step 1/fs is den/num.     *)

\* the number of samples of a data object
NSamp == 2

Axes == 1..3

\* F applied to the value of e, which is computed once
With(e, F(_)) == CHOOSE r \in {F(x) : x \in {e}} : TRUE

Cols(x) == Len(x[1])

\* np.dot of a (3, 3) matrix and a (3, p) array
Dot(m, x) ==
    [i \in Axes |-> [k \in 1..Cols(x) |->
        m[i][1] * x[1][k] + m[i][2] * x[2][k] + m[i][3] * x[3][k]]]

\* np.dot of a (3, 3) matrix and a vector
DotVec(m, x) == [i \in Axes |-> m[i][1] * x[1] + m[i][2] * x[2] + m[i][3] * x[3]]

\* m.T
Transpose(m) == [i \in Axes |-> [j \in Axes |-> m[j][i]]]

Minus(x, y) == [i \in Axes |-> [k \in 1..Cols(x) |-> x[i][k] - y[i][k]]]
Plus(x, y) == [i \in Axes |-> [k \in 1..Cols(x) |-> x[i][k] + y[i][k]]]
Neg(x) == [i \in Axes |-> [k \in 1..Cols(x) |-> -x[i][k]]]

Det3(m) ==
    m[1][1] * (m[2][2] * m[3][3] - m[2][3] * m[3][2])
  - m[1][2] * (m[2][1] * m[3][3] - m[2][3] * m[3][1])
  + m[1][3] * (m[2][1] * m[3][2] - m[2][2] * m[3][1])

\* the cofactor of m at (i, j)
Cof(m, i, j) ==
    LET r1 == (i % 3) + 1      r2 == ((i + 1) % 3) + 1
        c1 == (j % 3) + 1      c2 == ((j + 1) % 3) + 1
    IN m[r1][c1] * m[r2][c2] - m[r1][c2] * m[r2][c1]

\* np.linalg.inv of an integer matrix of determinant 1 or -1
Inv3(m) == [i \in Axes |-> [j \in Axes |-> Cof(m, j, i) * Det3(m)]]

\* sig.butter(order, Wn): the coefficients (b, a) of a recursive filter,
\* a[1] = 1.  The Butterworth design is not computed: a filter with integer
\* coefficients that depend on the order and the frequency stands for it.
Butter(order, freq) ==
    [b |-> IF order = 1 THEN <<1, 1>> ELSE <<1, 2, 1>>,
     a |-> <<1, -(freq % 2)>>]

\* lfilter(b, a, x)[n]: sum b[i] x[n - i] - a[2] y[n - 1], at rest before x
RECURSIVE LFilterAt(_, _, _)
LFilterAt(f, x, n) ==
    IF n < 1 THEN 0
    ELSE LET fwd(i) == IF i <= Len(f.b) /\ n - i + 1 >= 1
                       THEN f.b[i] * x[n - i + 1] ELSE 0
         IN fwd(1) + fwd(2) + fwd(3) - f.a[2] * LFilterAt(f, x, n - 1)

LFilter(f, x) == [n \in 1..Len(x) |-> LFilterAt(f, x, n)]

Reverse(x) == [n \in 1..Len(x) |-> x[Len(x) + 1 - n]]

\* sig.filtfilt(b, a, x): the filter run forward, then backward (the padding
\* of the edges, which is linear in x as well, is left out)
FiltFilt(f, x) == Reverse(LFilter(f, Reverse(LFilter(f, x))))

\* cumtrapz(x, dx = 1. / fs) of one row: the running trapezoid sum
RECURSIVE CumTrapzAt(_, _, _)
CumTrapzAt(x, fs, k) ==
    IF k < 1 THEN 0
    ELSE CumTrapzAt(x, fs, k - 1) + ((x[k] + x[k + 1]) * fs.den) \div (2 * fs.num)

\* line 24: zeros joined with cumtrapz(hp), one column more than cumtrapz
Integrated(x, fs) ==
    [k \in 1..Len(x) |-> IF k = 1 THEN 0 ELSE CumTrapzAt(x, fs, k - 1)]

\* lines 9-29
calcAccelVel(accel, samp_freq, filt_freq) ==
    LET filt == Butter(2, filt_freq)
        HighPass(row) == With(FiltFilt(filt, row), LAMBDA low :
                            [k \in 1..Len(row) |-> row[k] - low[k]])
    IN With(accel, LAMBDA hp :
       With([i \in Axes |-> Integrated(hp[i], samp_freq)], LAMBDA vel :
       With([i \in Axes |-> HighPass(vel[i])], LAMBDA out : Neg(out))))

\* line 47: uerr[c][p][n], minus the cross product of the angular rate and
\* the position of probe p
Uerr(AngRt, vec) ==
    [c \in Axes |-> [p \in 1..Cols(vec) |-> [n \in 1..Cols(AngRt) |->
        -(CASE c = 1 -> vec[3][p] * AngRt[2][n] - vec[2][p] * AngRt[3][n]
            [] c = 2 -> vec[1][p] * AngRt[3][n] - vec[3][p] * AngRt[1][n]
            [] c = 3 -> vec[2][p] * AngRt[1][n] - vec[1][p] * AngRt[2][n])]]]

\* lines 45-54.  vec_imu2sample is [ndim, a]: a vector or a (3, 3) array
\* whose columns are the probes; transMat is <<>> for None.
calcRotationVel(AngRt, vec_imu2sample, transMat) ==
    With(IF vec_imu2sample.ndim = 1
         THEN [i \in Axes |-> <<vec_imu2sample.a[i]>>]
         ELSE vec_imu2sample.a, LAMBDA vec :
    With(Uerr(AngRt, vec), LAMBDA uerr :
       IF Cols(vec) = 3 /\ transMat # <<>>
       THEN \* beam[i][p][n] = sum_c inv[i][c] uerr[c][p][n]; its diagonal
            \* d[n][i] = beam[i][i][n]; the result is sum_j T[i][j] d[n][j]
            With(Inv3(transMat), LAMBDA inv :
            With([n \in 1..Cols(AngRt) |-> [j \in Axes |->
                     inv[j][1] * uerr[1][j][n] + inv[j][2] * uerr[2][j][n]
                       + inv[j][3] * uerr[3][j][n]]], LAMBDA d :
               [i \in Axes |-> [n \in 1..Cols(AngRt) |->
                   transMat[i][1] * d[n][1] + transMat[i][2] * d[n][2]
                     + transMat[i][3] * d[n][3]]]))
       ELSE [c \in Axes |-> [n \in 1..Cols(AngRt) |-> uerr[c][1][n]]]))

\* line 108: the receivers of a Nortek Vector, r (cos(theta), sin(theta),
\* tan(phi)) for theta = 0, 120, 240 degrees and phi = -30 degrees, in units
\* of r / 2 and rounded to integers
ProbeGeometry == <<<<2, -1, -1>>, <<0, 2, -2>>, <<-1, -1, -1>>>>

\* lines 95-110
calcProbePos(self, o) ==
    IF /\ has_key(o.props, "inst_make") /\ o.props.inst_make = "Nortek"
       /\ has_key(o.props, "inst_model") /\ o.props.inst_model = "VECTOR"
       /\ self.separate_probes
    THEN [ndim |-> 2,
          a |-> With(Dot(Transpose(o.props.body2head_rotmat), ProbeGeometry), LAMBDA g :
                   [i \in Axes |-> [p \in Axes |-> g[i][p] + o.props.body2head_vec[i]]])]
    ELSE [ndim |-> 1, a |-> o.props.body2head_vec]

\* line 75 without the transpose
rotateVel2body_notranspose(o) == Dot(o.props.body2head_rotmat, o.u)

\* line 75: the new _u
rotateVel2body(o) == Dot(Transpose(o.props.body2head_rotmat), o.u)

\* lines 77-82: urot
calcRotVel(self, o) ==
    With(calcProbePos(self, o), LAMBDA probes :
    With(o.props.body2head_rotmat, LAMBDA R :
       IF self.separate_probes
       THEN With(Dot(R, o.AngRt), LAMBDA rate :
            With([ndim |-> probes.ndim,
                  a |-> IF probes.ndim = 1 THEN DotVec(R, probes.a)
                                           ELSE Dot(R, probes.a)], LAMBDA p :
            With(calcRotationVel(rate, p, o.TransMatrix), LAMBDA vel :
               Dot(Transpose(R), vel))))
       ELSE calcRotationVel(o.AngRt, probes, <<>>)))

\* lines 85-92: AccelStable
calcAccelStable(self, o) ==
    LET n == Cols(o.Accel)
        flt == Butter(1, self.accel_filtfreq)
    IN \* einsum('ijk,ik->jk'): acctmp[j][k] = sum_i orientmat[i][j][k] Accel[i][k]
       With([j \in Axes |-> [k \in 1..n |->
                  o.orientmat[1][j][k] * o.Accel[1][k]
                + o.orientmat[2][j][k] * o.Accel[2][k]
                + o.orientmat[3][j][k] * o.Accel[3][k]]], LAMBDA acctmp :
       With([j \in Axes |-> FiltFilt(flt, acctmp[j])], LAMBDA low :
          \* einsum('ijk,jk->ik')
          [i \in Axes |-> [k \in 1..n |->
               o.orientmat[i][1][k] * low[1][k] + o.orientmat[i][2][k] * low[2][k]
             + o.orientmat[i][3][k] * low[3][k]]]))

\* lines 117-126
CorrectMotion(self, o) ==
    LET vars0 == IF has_key(o.props, "rotate_vars")
                 THEN o.props.rotate_vars \o <<"urot", "uacc", "AccelStable">>
                 ELSE <<"_u", "urot", "uacc", "Accel", "AccelStable", "AngRt", "Mag">>
    IN With([o EXCEPT !.props = ("rotate_vars" :> vars0) @@ o.props], LAMBDA o1 :
       With([o1 EXCEPT !.u = rotateVel2body(o1)], LAMBDA o2 :
       With(("urot" :> calcRotVel(self, o2)) @@ o2, LAMBDA o3 :
       With(("AccelStable" :> calcAccelStable(self, o3)) @@ o3, LAMBDA o4 :
       With(("uacc" :> calcAccelVel(Minus(o4.Accel, o4.AccelStable), o4.fs,
                                    self.accelvel_filtfreq)) @@ o4, LAMBDA o5 :
          [o5 EXCEPT !.u = Minus(o5.u, Plus(o5.urot, o5.uacc)),
                     !.orient = o.orient \cup {"urot", "AccelStable", "uacc"}])))))

correct_motion ==
    /\ mc_pc = "ready"
    /\ madv' = CorrectMotion(mc, madv)
    /\ u_head' = madv.u
    /\ mc_pc' = "corrected"
    /\ UNCHANGED <<mc, idxvars, rotvars>>

\* time series of the model: the value of row i at sample k
Series(f(_, _)) == [i \in Axes |-> [k \in 1..NSamp |-> f(i, k)]]

ZeroSeries == Series(LAMBDA i, k : 0)
VelocitySeries == {Series(LAMBDA i, k : i + k), Series(LAMBDA i, k : IF i = 1 THEN 2 ELSE 0)}
AngRtSeries == {ZeroSeries, Series(LAMBDA i, k : IF i = 3 THEN 1 ELSE 0),
                Series(LAMBDA i, k : i * k)}
AccelSeries == {ZeroSeries, Series(LAMBDA i, k : IF i = 3 THEN -10 ELSE 0),
                Series(LAMBDA i, k : 2 * k - 2 * i)}

Identity3 == <<<<1, 0, 0>>, <<0, 1, 0>>, <<0, 0, 1>>>>
\* a quarter turn about z
RotZ == <<<<0, -1, 0>>, <<1, 0, 0>>, <<0, 0, 1>>>>
\* a shear: an integer matrix of determinant 1 that is not orthogonal
Shear == <<<<1, 1, 0>>, <<0, 1, 0>>, <<0, 0, 1>>>>

\* orientation matrices: the same at every sample, or turning between samples
OrientSeries ==
    { [i \in Axes |-> [j \in Axes |-> [k \in 1..NSamp |-> Identity3[i][j]]]],
      [i \in Axes |-> [j \in Axes |-> [k \in 1..NSamp |->
          IF k % 2 = 1 THEN RotZ[i][j] ELSE Identity3[i][j]]]] }

InitMC ==
    /\ \E sep \in BOOLEAN, fa \in {1, 2}, fv \in {1, 2} :
          mc = [accel_filtfreq |-> fa, accelvel_filtfreq |-> fv, separate_probes |-> sep]
    /\ \E vel \in VelocitySeries, rate \in AngRtSeries, acc \in AccelSeries,
          om \in OrientSeries, R \in {Identity3, RotZ},
          model \in {"VECTOR", "AQD"}, tm \in {<<>>, Shear},
          rv \in {<<>>, <<<<"_u">>>>} :
          madv = [u |-> vel, AngRt |-> rate, Accel |-> acc, orientmat |-> om,
                  fs |-> [num |-> 1, den |-> 2],
                  TransMatrix |-> tm,
                  orient |-> {"AngRt", "Accel", "orientmat"},
                  props |-> LET pr == [body2head_rotmat |-> R,
                                       body2head_vec |-> <<1, 2, 3>>,
                                       inst_make |-> "Nortek", inst_model |-> model]
                            IN IF rv = <<>> THEN pr ELSE ("rotate_vars" :> rv[1]) @@ pr]
    /\ u_head = <<>>
    /\ mc_pc = "ready"

\* no correct_motion object
IdleMC ==
    /\ mc = <<>>
    /\ madv = <<>>
    /\ u_head = <<>>
    /\ mc_pc = "idle"

----------------------------------------------------------------------------
(* Specifications of the indexer.                                          *)

InitIdx ==
    /\ recs \in Streams
    /\ cut \in Cuts
    /\ N_ens \in MaxEnsChoices
    /\ InitScan
    /\ IdleRot
    /\ IdleMC

NextIdx == create_index_slow \/ Analyse

Spec == InitIdx /\ [][NextIdx]_vars

\* the interpreter keeps running the loop of lines 74-97 while it can take a
\* step that changes the state
SpecLive == InitIdx /\ [][NextIdx]_vars /\ WF_vars(create_index_slow)

\* an index file found on disk: any entries, of any id
IndexEntries ==
    {[ens |-> 0, pos |-> 0, ID |-> id, config |-> c, beams_cy |-> b,
      time |-> <<12, 5, 12, 0, 0, 0, 0>>] :
        id \in {21, 24, 28}, c \in {8416, 225}, b \in {16404, 17428}}

\* the longest such index
MaxLoaded == 4

InitCfg ==
    /\ recs = <<>>
    /\ cut = 0
    /\ N_ens = Unlimited
    /\ pos = 0
    /\ N = 0
    /\ ens = 0
    /\ last_ens = -1
    /\ config = 0
    /\ fout \in UNION {[1..n -> IndexEntries] : n \in 0..MaxLoaded}
    /\ pc = "done"
    /\ err = ""
    /\ ens_pos = <<>>
    /\ cfgout = <<>>
    /\ IdleRot
    /\ IdleMC

SpecCfg == InitCfg /\ [][Analyse]_vars

\* no input file
IdleIdx ==
    /\ recs = <<>>
    /\ cut = 0
    /\ N_ens = Unlimited
    /\ InitScan

----------------------------------------------------------------------------
(* Specifications of the rotations and of the motion correction.           *)

NextRot == inst2earth \/ earth2principal \/ principal2earth

\* a data object and no input file
InitSpecRot == IdleIdx /\ InitRot /\ IdleMC

SpecRot == InitSpecRot /\ [][NextRot]_vars

\* a correct_motion object, the data object it is called on, no input file
InitSpecMC == IdleIdx /\ IdleRot /\ InitMC

SpecMC == InitSpecMC /\ [][correct_motion]_vars

----------------------------------------------------------------------------
(* Properties of the indexer.                                              *)

\* a stream of complete records, each declaring the payload it carries
WellSized == \A i \in 1..Len(recs) : recs[i].sz = recs[i].plen
WellFormed == WellSized /\ cut = 0

\* the recognized records of the stream, in stream order, as (offset, id)
RECURSIVE RecognizedFrom(_)
RecognizedFrom(i) ==
    IF i > Len(recs) THEN <<>>
    ELSE IF recs[i].id \in {21, 24, 26}
         THEN <<[pos |-> Offset(recs, i), ID |-> recs[i].id]>> \o RecognizedFrom(i + 1)
         ELSE RecognizedFrom(i + 1)
Expected == RecognizedFrom(1)

\* the entries written, as (offset, id)
Written == [i \in 1..Len(fout) |-> [pos |-> fout[i].pos, ID |-> fout[i].ID]]

IsPrefix(a, b) == Len(a) <= Len(b) /\ \A i \in 1..Len(a) : a[i] = b[i]

\* C1: in every index create_index_slow writes, each entry's byte offset is
\* strictly greater than the previous entry's and its ensemble number is
\* greater than or equal to the previous entry's.
C1_Monotone ==
    \A i \in 1..(Len(fout) - 1) :
        fout[i + 1].pos > fout[i].pos /\ fout[i + 1].ens >= fout[i].ens

\* C2: the first entry has ensemble number 0; every later entry has the
\* previous entry's ensemble number plus one if and only if the record's
\* ensemble counter differs from that of the previous recognized record, and
\* the same ensemble number otherwise, for every counter value (0 included).
\* (Stated of well-formed streams, where each entry is one record.)
C2_CounterChange ==
    [][(WellFormed /\ Len(fout') = Len(fout) + 1) =>
          IF Len(fout) = 0
          THEN fout'[1].ens = 0
          ELSE fout'[Len(fout')].ens =
                  fout[Len(fout)].ens + (IF ens' # ens THEN 1 ELSE 0)]_vars

FirstOf(index, k) ==
    SetMin({i \in 1..Len(index) : index[i].ens = k})

\* C4: for an index built by create_index_slow, index2ens_pos returns as many
\* offsets as the index has distinct ensemble numbers, and its k-th element
\* (from 0) is the offset of the first entry whose ensemble number is k.
C4_EnsembleStarts ==
    pc = "condensed" =>
        /\ Len(ens_pos) = Cardinality({fout[i].ens : i \in 1..Len(fout)})
        /\ \A k \in 0..(Len(ens_pos) - 1) :
              /\ \E i \in 1..Len(fout) : fout[i].ens = k
              /\ ens_pos[k + 1] = fout[FirstOf(fout, k)].pos

C4_Witness ==
    /\ pc = "condensed"
    /\ Len(fout) = 3
    /\ Len(ens_pos) = 2
    /\ fout[2].ens = fout[3].ens

\* whether two entries of this id differ in config or in beams_cy
Differs(index, id) ==
    \E i, j \in 1..Len(index) :
        /\ index[i].ID = id
        /\ index[j].ID = id
        /\ (index[i].config # index[j].config \/ index[i].beams_cy # index[j].beams_cy)

\* the entries of this id share one config and one beams_cy, and the dict
\* is decoded from them
DecodedFrom(index, id, d) ==
    \E i \in 1..Len(index) :
        /\ index[i].ID = id
        /\ d = ConfigDict(index[i].config, index[i].beams_cy, id)

\* C5 as stated: for every id of the index, calc_config fails with an error
\* naming that id if two of its entries differ in config or beams_cy, and
\* returns a dict for that id if the entries of every id agree.
C5_EveryId ==
    pc \in {"configured", "cfgerror"} =>
        \A id \in ids(fout) :
            /\ Differs(fout, id) => (cfgout.raised /\ cfgout.id = id)
            /\ (\A other \in ids(fout) : ~Differs(fout, other)) =>
                  /\ ~cfgout.raised
                  /\ id \in DOMAIN cfgout.config
                  /\ DecodedFrom(fout, id, cfgout.config[id])

\* C5 amended: calc_config looks only at the ids 21, 24 and 26.  If the
\* entries of one of them differ it fails, naming the smallest such id, and
\* returns nothing; otherwise it returns a dict for each of these ids that is
\* present, decoded from the shared values, and none for any other id.
C5_RecognizedIds ==
    pc \in {"configured", "cfgerror"} =>
        LET bad == {id \in ids(fout) \cap {21, 24, 26} : Differs(fout, id)}
        IN IF bad # {}
           THEN /\ pc = "cfgerror"
                /\ cfgout.raised
                /\ cfgout.id = SetMin(bad)
                /\ cfgout.config = <<>>
           ELSE /\ pc = "configured"
                /\ ~cfgout.raised
                /\ DOMAIN cfgout.config = ids(fout) \cap {21, 24, 26}
                /\ \A id \in DOMAIN cfgout.config :
                      DecodedFrom(fout, id, cfgout.config[id])

C5_Witness ==
    /\ pc = "cfgerror"
    /\ Len(fout) = 3
    /\ fout[1].ID = 24
    /\ fout[2].ID = 24
    /\ fout[3].ID = 24
    /\ fout[1].config = fout[2].config
    /\ fout[1].config = fout[3].config
    /\ fout[1].beams_cy = fout[2].beams_cy
    /\ fout[1].beams_cy # fout[3].beams_cy

\* the record the end of the file falls inside, if any
Partial ==
    {i \in 1..Len(recs) :
        Offset(recs, i) < FileLen /\ FileLen < Offset(recs, i) + RecLen(recs[i])}

\* C10: when the file ends inside a record, create_index_slow ends without
\* raising and the index has no entry for that record.
C10_TruncatedRecord ==
    WellSized =>
        \A i \in Partial :
            /\ pc # "error"
            /\ pc = "done" => \A j \in 1..Len(fout) : fout[j].pos # Offset(recs, i)


\* C11: when the header the scan has just unpacked declares a size that is 0
\* or smaller than the header size, create_index_slow ends right there with
\* an error (whatever its name) instead of going on with the scan.
C11_CorruptSizeAborts ==
    [][(pc = "scan" /\ N < N_ens /\ HeaderComplete /\ dat[5] < HdrSize)
          => pc' = "error"]_vars

\* C12: for every file and every N_ens, create_index_slow eventually ends,
\* whatever sizes the headers declare.
C12_Terminates == <>(pc # "scan")

----------------------------------------------------------------------------
(* Properties of the rotations.                                            *)

LastCall == calls[Len(calls)]

\* C6: a rotation whose target frame is the tag the data already carries
\* leaves (u, v) and the tag as they were: earth2principal on data tagged
\* principal, principal2earth on data tagged earth.
C6_NoOpAtTarget ==
    (/\ calls # <<>>
     /\ \/ LastCall.op = "earth2principal" /\ LastCall.coord_sys = "principal"
        \/ LastCall.op = "principal2earth" /\ LastCall.coord_sys = "earth")
    => /\ advo.u = LastCall.u
       /\ advo.v = LastCall.v
       /\ advo.props.coord_sys = LastCall.coord_sys

\* C7: the tag changes only from inst to earth, from earth to principal and
\* from principal to earth.
C7_TagTransitions ==
    [][advo'.props.coord_sys # advo.props.coord_sys =>
          <<advo.props.coord_sys, advo'.props.coord_sys>> \in
              {<<"inst", "earth">>, <<"earth", "principal">>, <<"principal", "earth">>}]_vars

\* C8: on data tagged earth, earth2principal followed by principal2earth
\* gives back the (u, v) it started from and leaves the tag at earth.
C8_RoundTrip ==
    (/\ Len(calls) = 2
     /\ calls[1].op = "earth2principal"
     /\ calls[1].coord_sys = "earth"
     /\ calls[2].op = "principal2earth")
    => /\ advo.u = calls[1].u
       /\ advo.v = calls[1].v
       /\ advo.props.coord_sys = "earth"

C8_Witness ==
    /\ Len(calls) = 2
    /\ calls[1].op = "earth2principal"
    /\ calls[1].coord_sys = "earth"
    /\ calls[2].op = "principal2earth"
    /\ calls[2].coord_sys = "principal"
    /\ advo.principal_angle = 90
    /\ calls[2].u # calls[1].u
    /\ advo.u = calls[1].u

\* C13: a call of inst2earth that finds no declination in props, and likewise
\* one that finds no heading_offset, completes the rotation with that value
\* taken as zero and emits a warning for it.
C13_MissingInputWarned ==
    (/\ calls # <<>>
     /\ LastCall.op = "inst2earth"
     /\ hasattr(advo, "u_inst"))
    => /\ raised = ""
       /\ advo.props.coord_sys = "earth"
       /\ ~has_key(advo.props, "declination") =>
             "No declination in adv object.  Assuming a declination of 0." \in warned
       /\ ~has_key(advo.props, "heading_offset") =>
             warned \ {"No declination in adv object.  Assuming a declination of 0."} # {}

----------------------------------------------------------------------------
(* Properties of the motion correction.                                    *)

\* C9: with the angular rate zero and the acceleration zero at every sample,
\* urot is zero, uacc is zero, and the corrected velocity is the velocity the
\* call found, multiplied by the transpose of body2head_rotmat.
C9_ZeroMotion ==
    (/\ mc_pc = "corrected"
     /\ madv.AngRt = ZeroSeries
     /\ madv.Accel = ZeroSeries)
    => /\ madv.urot = ZeroSeries
       /\ madv.uacc = ZeroSeries
       /\ madv.u = [i \in Axes |-> [k \in 1..NSamp |->
                       madv.props.body2head_rotmat[1][i] * u_head[1][k]
                     + madv.props.body2head_rotmat[2][i] * u_head[2][k]
                     + madv.props.body2head_rotmat[3][i] * u_head[3][k]]]

C9_Witness ==
    /\ mc_pc = "corrected"
    /\ madv.AngRt = ZeroSeries
    /\ madv.Accel = ZeroSeries
    /\ mc.separate_probes
    /\ madv.props.inst_model = "VECTOR"
    /\ madv.TransMatrix # <<>>
    /\ madv.props.body2head_rotmat = RotZ
    /\ madv.u # u_head

====
